---- MODULE Spec2Model ----
(***************************************************************************)
(* ckb-graphql-types: the scalar codec (src/lib.rs, src/hex.rs,            *)
(* src/error.rs) and the structural codec (src/cell.rs,                    *)
(* src/transaction.rs).                                                    *)
(*                                                                         *)
(* Texts are sequences of one-character strings.  An unsigned integer of   *)
(* N bits is the sequence of its N/4 hexadecimal digits, most significant  *)
(* first (a fixed-width register).  A byte is a number in 0..255; hashes   *)
(* and byte strings are sequences of bytes.                                *)
(***************************************************************************)
EXTENDS Integers, Sequences, FiniteSets, TLC

VARIABLES ty, origin, pc, text, res, out, res2,
          tx, core, view, repacked, view2, tpc

svars == <<ty, origin, pc, text, res, out, res2>>
tvars == <<tx, core, view, repacked, view2, tpc>>
vars == <<ty, origin, pc, text, res, out, res2,
          tx, core, view, repacked, view2, tpc>>

-----------------------------------------------------------------------------
(* Bounds of the model *)

\* how far around a type's exact digit count the lengths of the input texts range
MaxPad == 2
\* longest byte string drawn as a GraphqlBytes value
MaxBytes == 2
\* most array elements pushed into one packed transaction
MaxItems == 2

-----------------------------------------------------------------------------
(* Results *)

Ok(v) == [ok |-> TRUE, val |-> v, err |-> "none"]
Err(e) == [ok |-> FALSE, val |-> <<>>, err |-> e]
None == [ok |-> FALSE, val |-> <<>>, err |-> "unset"]

Rep(c, k) == [i \in 1..k |-> c]

-----------------------------------------------------------------------------
(* src/hex.rs *)

HEX_PREFIX == <<"0", "x">>

LowerDigits == <<"0", "1", "2", "3", "4", "5", "6", "7", "8", "9",
                 "a", "b", "c", "d", "e", "f">>
UpperDigits == <<"0", "1", "2", "3", "4", "5", "6", "7", "8", "9",
                 "A", "B", "C", "D", "E", "F">>

\* char::to_digit(16) and faster_hex's unhex table: the digit's value, -1 for no digit
to_digit(c) ==
    IF \E i \in 1..16 : LowerDigits[i] = c
    THEN (CHOOSE i \in 1..16 : LowerDigits[i] = c) - 1
    ELSE IF \E i \in 1..16 : UpperDigits[i] = c
         THEN (CHOOSE i \in 1..16 : UpperDigits[i] = c) - 1
         ELSE -1

starts_with(s, p) == Len(s) >= Len(p) /\ SubSeq(s, 1, Len(p)) = p

clean_0x(s) ==
    IF starts_with(s, <<"0", "x">>) \/ starts_with(s, <<"0", "X">>)
    THEN Ok(SubSeq(s, 3, Len(s)))
    ELSE Err("HexPrefix")

\* variant: uppercase digits
hex_string_Upper(src) ==
    [i \in 1..(2 * Len(src)) |->
        IF i % 2 = 1 THEN UpperDigits[(src[(i + 1) \div 2] \div 16) + 1]
                     ELSE UpperDigits[(src[i \div 2] % 16) + 1]]

\* faster_hex::hex_string: two lowercase digits per byte
hex_string(src) ==
    [i \in 1..(2 * Len(src)) |->
        IF i % 2 = 1 THEN LowerDigits[(src[(i + 1) \div 2] \div 16) + 1]
                     ELSE LowerDigits[(src[i \div 2] % 16) + 1]]

\* variant: the prefix left out
hex_encode_NoPrefix(src) == hex_string(src)

hex_encode(src) == HEX_PREFIX \o hex_string(src)

\* faster_hex::hex_decode into a buffer of src.len() / 2 bytes
faster_hex_decode(src) ==
    IF Len(src) % 2 # 0 THEN Err("FromHex")
    ELSE IF \E i \in 1..Len(src) : to_digit(src[i]) = -1 THEN Err("FromHex")
    ELSE Ok([i \in 1..(Len(src) \div 2) |->
                16 * to_digit(src[2 * i - 1]) + to_digit(src[2 * i])])

\* variant: no early return for the empty text
hex_decode_NoEmpty(src) ==
    LET s == clean_0x(src)
    IN  IF ~s.ok THEN s ELSE faster_hex_decode(s.val)

hex_decode(src) ==
    IF src = <<>> THEN Ok(<<>>)
    ELSE LET s == clean_0x(src)
         IN  IF ~s.ok THEN s ELSE faster_hex_decode(s.val)

\* format!("{:x}", src): the digits from the first non-zero one, "0" for zero
lower_hex(src) ==
    LET nz == {i \in 1..Len(src) : src[i] # 0}
    IN  IF nz = {} THEN <<"0">>
        ELSE LET first == CHOOSE i \in nz : \A j \in nz : i <= j
             IN  [k \in 1..(Len(src) - first + 1) |-> LowerDigits[src[first + k - 1] + 1]]

\* variant: every digit of the width printed
hex_uint_Padded(src) == HEX_PREFIX \o [k \in 1..Len(src) |-> LowerDigits[src[k] + 1]]

hex_uint(src) == HEX_PREFIX \o lower_hex(src)

-----------------------------------------------------------------------------
(* src/lib.rs: graphql_primitive! *)

Uint32Bits == 32
Uint64Bits == 64
Uint128Bits == 128
H160Len == 20
H256Len == 32

UintTypes == {"Uint32", "Uint64", "Uint128"}
HashTypes == {"H160", "H256"}
ScalarTypes == UintTypes \cup HashTypes \cup {"GraphqlBytes"}

Bits(t) == CASE t = "Uint32" -> Uint32Bits
             [] t = "Uint64" -> Uint64Bits
             [] t = "Uint128" -> Uint128Bits

HashLen(t) == CASE t = "H160" -> H160Len
                [] t = "H256" -> H256Len

\* <uN>::from_str_radix(s, 16): an optional "+", then digits accumulated with
\* checked_mul(16) and checked_add(digit) in a register of n bits
RECURSIVE accumulate(_, _, _)
accumulate(digits, i, acc) ==
    IF i > Len(digits) THEN Ok(acc)
    ELSE IF to_digit(digits[i]) = -1 THEN Err("ParseUint")
    ELSE IF acc[1] # 0 THEN Err("ParseUint")
    ELSE accumulate(digits, i + 1, Tail(acc) \o <<to_digit(digits[i])>>)

from_str_radix(s, n) ==
    IF s = <<>> THEN Err("ParseUint")
    ELSE IF s = <<"+">> \/ s = <<"-">> THEN Err("ParseUint")
    ELSE accumulate(IF s[1] = "+" THEN Tail(s) ELSE s, 1, Rep(0, n \div 4))

uint_from_str(s, n) ==
    LET c == clean_0x(s)
    IN  IF ~c.ok THEN c ELSE from_str_radix(c.val, n)

\* variant: the length check left out
hash_from_str_NoLen(s, len) == hex_decode(s)

hash_from_str(s, len) ==
    LET bytes == hex_decode(s)
    IN  IF ~bytes.ok THEN bytes
        ELSE IF Len(bytes.val) # len THEN Err("ParseBytes")
        ELSE bytes

bytes_from_str(s) == hex_decode(s)

from_str(t, s) ==
    IF t \in UintTypes THEN uint_from_str(s, Bits(t))
    ELSE IF t \in HashTypes THEN hash_from_str(s, HashLen(t))
    ELSE bytes_from_str(s)

to_value(t, v) ==
    [kind |-> "String",
     s |-> IF t \in UintTypes THEN hex_uint(v) ELSE hex_encode(v)]

\* ScalarType::parse
parse(t, value) ==
    IF value.kind = "String" THEN from_str(t, value.s)
    ELSE Err("ExpectedType")

-----------------------------------------------------------------------------
(* Inputs of the scalar codec *)

\* the number of hexadecimal digits of a value of the type (of the longest
\* drawn byte string for GraphqlBytes)
Digits(t) ==
    IF t \in UintTypes THEN Bits(t) \div 4
    ELSE IF t \in HashTypes THEN 2 * HashLen(t)
    ELSE 2 * MaxBytes

Prefixes == {<<>>, <<"0", "x">>, <<"0", "X">>, <<"0">>, <<"x">>}
HeadChars == {"+", "-", "0", "1", "A", "z"}
RunChars == {"0", "f", "F"}
TailChars == {"0", "b", " "}

OptChar(S) == {<<>>} \cup {<<c>> : c \in S}

RunLens(t) ==
    (0..MaxPad) \cup {k \in (Digits(t) - MaxPad)..(Digits(t) + MaxPad) : k >= 0}

Texts(t) ==
    {p \o h \o Rep(c, k) \o e :
        p \in Prefixes, h \in OptChar(HeadChars), c \in RunChars,
        k \in RunLens(t), e \in OptChar(TailChars)}

Nibbles == {0, 1, 10, 15}
ByteVals == {0, 1, 171, 255}

\* z zero digits, one digit h, then digits r
Shaped(n, z, h, r) ==
    [i \in 1..n |-> IF i <= z THEN 0 ELSE IF i = z + 1 THEN h ELSE r]

RECURSIVE SeqsUpTo(_, _)
SeqsUpTo(S, n) ==
    IF n = 0 THEN {<<>>}
    ELSE LET shorter == SeqsUpTo(S, n - 1)
         IN  shorter \cup {Append(q, x) : q \in {r \in shorter : Len(r) = n - 1}, x \in S}

Values(t) ==
    IF t \in UintTypes
    THEN {Shaped(Bits(t) \div 4, z, h, r) :
            z \in 0..(Bits(t) \div 4), h \in Nibbles, r \in Nibbles}
    ELSE IF t \in HashTypes
    THEN {Shaped(HashLen(t), z, h, r) :
            z \in 0..HashLen(t), h \in ByteVals, r \in ByteVals}
    ELSE SeqsUpTo(ByteVals, MaxBytes)

-----------------------------------------------------------------------------
(* The scalar codec as a state machine: a text is decoded, re-encoded and   *)
(* parsed again; a value is encoded and parsed.                            *)

NoText == <<"?">>
NoValue == [kind |-> "Null", s |-> <<>>]
NoTx == [raw |-> <<>>, witnesses |-> <<>>]

NoView == [status |-> "unset", val |-> <<>>]

TxIdle ==
    /\ tx = NoTx /\ core = <<>> /\ view = NoView /\ repacked = <<>>
    /\ view2 = NoView /\ tpc = "idle"

ScalarInit ==
    /\ ty \in ScalarTypes
    /\ \/ /\ origin = "text"
          /\ text \in Texts(ty)
          /\ res = None
          /\ pc = "text"
       \/ /\ origin = "value"
          /\ text = NoText
          /\ res \in {Ok(v) : v \in Values(ty)}
          /\ pc = "value"
    /\ out = NoValue
    /\ res2 = None
    /\ TxIdle

\* FromStr::from_str on the input text
FromStr ==
    /\ pc = "text"
    /\ res' = from_str(ty, text)
    /\ pc' = IF res'.ok THEN "value" ELSE "failed"
    /\ UNCHANGED <<ty, origin, text, out, res2>>
    /\ UNCHANGED tvars

\* ScalarType::to_value on the value held
ToValue ==
    /\ pc = "value"
    /\ out' = to_value(ty, res.val)
    /\ pc' = "encoded"
    /\ UNCHANGED <<ty, origin, text, res, res2>>
    /\ UNCHANGED tvars

\* ScalarType::parse on the produced GraphQL value
Parse ==
    /\ pc = "encoded"
    /\ res2' = parse(ty, out)
    /\ pc' = "done"
    /\ UNCHANGED <<ty, origin, text, res, out>>
    /\ UNCHANGED tvars

ScalarNext == FromStr \/ ToValue \/ Parse

Spec == ScalarInit /\ [][ScalarNext]_vars

-----------------------------------------------------------------------------
(* Properties of the scalar codec *)

LowerSet == {LowerDigits[i] : i \in 1..16}
HexSet == LowerSet \cup {UpperDigits[i] : i \in 1..16}

AllIn(s, S) == \A i \in 1..Len(s) : s[i] \in S

HasPrefix(s) ==
    Len(s) >= 2 /\ s[1] = "0" /\ s[2] \in {"x", "X"}

Payload(s) == SubSeq(s, 3, Len(s))

\* the text has been through from_str
Decoded == origin = "text" /\ pc # "text"

\* the digits of s, none skipped, padded with zeros on the left to n digits
PadTo(s, n) == Rep(0, n - Len(s)) \o [i \in 1..Len(s) |-> to_digit(s[i])]

\* the number of digits of s from its first non-zero one
Significant(s) ==
    LET nz == {i \in 1..Len(s) : s[i] # "0"}
    IN  IF nz = {} THEN 0
        ELSE Len(s) + 1 - (CHOOSE i \in nz : \A j \in nz : i <= j)

\* C1: a value of any scalar family, encoded by to_value and parsed back,
\* parses successfully to the same value.
C1_ScalarRoundTrip ==
    (origin = "value" /\ pc = "done") => (res2.ok /\ res2.val = res.val)

C1_Witness ==
    /\ origin = "value" /\ pc = "done"
    /\ ty = "GraphqlBytes" /\ res.val = <<>> /\ res2 = Ok(<<>>)

\* C5 as stated: a text without the 0x/0X prefix fails with HexPrefix for
\* every family, except the empty text for GraphqlBytes, which is the empty
\* byte string; a prefixed text whose payload is not even-length hexadecimal
\* fails with FromHex for hashes and byte strings.
C5_PrefixRejection_Original ==
    Decoded =>
        /\ ~HasPrefix(text) =>
              IF ty = "GraphqlBytes" /\ text = <<>>
              THEN res = Ok(<<>>)
              ELSE res = Err("HexPrefix")
        /\ (/\ HasPrefix(text)
            /\ ty \notin UintTypes
            /\ (Len(Payload(text)) % 2 = 1 \/ ~AllIn(Payload(text), HexSet)))
              => res = Err("FromHex")

\* C5 amended: as stated, except that the empty text is rejected by the hash
\* families with ParseBytes (it decodes to zero bytes, the wrong length), and
\* with HexPrefix only by the integer families.
C5_PrefixRejection ==
    Decoded =>
        /\ ~HasPrefix(text) =>
              IF text = <<>> /\ ty = "GraphqlBytes" THEN res = Ok(<<>>)
              ELSE IF text = <<>> /\ ty \in HashTypes THEN res = Err("ParseBytes")
              ELSE res = Err("HexPrefix")
        /\ (/\ HasPrefix(text)
            /\ ty \notin UintTypes
            /\ (Len(Payload(text)) % 2 = 1 \/ ~AllIn(Payload(text), HexSet)))
              => res = Err("FromHex")

C5_Witness ==
    /\ Decoded /\ ty = "H256" /\ text = <<>> /\ res = Err("ParseBytes")

\* C6: for an integer family and a prefixed text, from_str succeeds exactly
\* when the rest is a non-empty run of hexadecimal digits whose value fits the
\* width, and every other rest fails with ParseUint.
C6_IntegerValidity ==
    (Decoded /\ ty \in UintTypes /\ HasPrefix(text)) =>
        LET p == Payload(text)
            valid == /\ p # <<>>
                     /\ AllIn(p, HexSet)
                     /\ Significant(p) <= Bits(ty) \div 4
        IN  /\ res.ok <=> valid
            /\ ~res.ok => res = Err("ParseUint")

\* C7: for a hash family and a prefixed text whose payload is even-length
\* hexadecimal, from_str succeeds exactly when the payload is of M bytes, and
\* fails with ParseBytes otherwise.
C7_LengthRejection ==
    (/\ Decoded /\ ty \in HashTypes /\ HasPrefix(text)
     /\ Len(Payload(text)) % 2 = 0 /\ AllIn(Payload(text), HexSet)) =>
        IF Len(Payload(text)) = 2 * HashLen(ty)
        THEN res.ok /\ Len(res.val) = HashLen(ty)
        ELSE res = Err("ParseBytes")

C7_Witness ==
    /\ Decoded /\ ty = "H256" /\ HasPrefix(text)
    /\ Len(Payload(text)) = 62 /\ AllIn(Payload(text), HexSet)
    /\ res = Err("ParseBytes")

\* C9: for every accepted text, the re-encoded text is "0x" and lowercase
\* hexadecimal digits, is accepted in turn, decodes to the same value, and
\* encodes to itself again.
C9_CanonicalReencoding ==
    (origin = "text" /\ pc = "done") =>
        /\ SubSeq(out.s, 1, 2) = <<"0", "x">>
        /\ AllIn(Payload(out.s), LowerSet)
        /\ res2.ok /\ res2.val = res.val
        /\ to_value(ty, res2.val) = out

C9_Witness ==
    /\ origin = "text" /\ pc = "done" /\ ty = "Uint64"
    /\ text = <<"0", "X", "+", "F", "F", "b">>
    /\ out.s = <<"0", "x", "f", "f", "b">>

\* C10: the encoded text is "0x" and then, for an integer, its lowercase
\* digits from the first non-zero one ("0" for zero); for a hash or a byte
\* string of n bytes, exactly 2n lowercase digits, two for every byte.
C10_TextShape ==
    (pc \in {"encoded", "done"}) =>
        LET d == Payload(out.s)
        IN  /\ SubSeq(out.s, 1, 2) = <<"0", "x">>
            /\ AllIn(d, LowerSet)
            /\ ty \in UintTypes =>
                  /\ Len(d) >= 1 /\ Len(d) <= Bits(ty) \div 4
                  /\ (d[1] = "0" => d = <<"0">>)
                  /\ PadTo(d, Bits(ty) \div 4) = res.val
            /\ ty \notin UintTypes =>
                  /\ Len(d) = 2 * Len(res.val)
                  /\ ty \in HashTypes => Len(d) = 2 * HashLen(ty)
                  /\ \A i \in 1..Len(res.val) :
                        16 * to_digit(d[2 * i - 1]) + to_digit(d[2 * i]) = res.val[i]

C10_Witness ==
    /\ pc = "encoded" /\ ty = "Uint128"
    /\ res.val = Rep(0, 32) /\ out.s = <<"0", "x", "0">>

-----------------------------------------------------------------------------
(* src/cell.rs *)

\* Unpack of packed::Uint32 / packed::Uint64 (little-endian bytes) into the
\* integer, and Pack back
unpack_uint(bytes) ==
    LET n == Len(bytes)
    IN  [i \in 1..(2 * n) |->
            LET b == bytes[n - ((i + 1) \div 2) + 1]
            IN  IF i % 2 = 1 THEN b \div 16 ELSE b % 16]

pack_uint(v) ==
    LET n == Len(v) \div 2
    IN  [j \in 1..n |-> 16 * v[2 * (n - j) + 1] + v[2 * (n - j) + 2]]

\* the outcome of unreachable!() in place of an enum variant
Unreachable == "unreachable!"

ScriptHashType_from(byte) ==
    CASE byte = 0 -> "Data"
      [] byte = 1 -> "Type"
      [] byte = 2 -> "Data1"
      [] OTHER -> Unreachable

\* `hash_type as u8`
ScriptHashType_as_u8(t) ==
    CASE t = "Data" -> 0
      [] t = "Type" -> 1
      [] t = "Data1" -> 2

Script_from(value) ==
    [code_hash |-> value.code_hash,
     hash_type |-> ScriptHashType_from(value.hash_type),
     args |-> value.args]

Script_into(value) ==
    [code_hash |-> value.code_hash,
     hash_type |-> ScriptHashType_as_u8(value.hash_type),
     args |-> value.args]

\* variant: an all-default type script taken for an absent one
CellOutput_from_InferDefault(value) ==
    [capacity |-> unpack_uint(value.capacity),
     lock |-> Script_from(value.lock),
     type_ |-> IF /\ value.type_ # <<>>
                  /\ value.type_[1].code_hash = Rep(0, 32)
                  /\ value.type_[1].hash_type = 0
                  /\ value.type_[1].args = <<>>
               THEN <<>>
               ELSE [i \in 1..Len(value.type_) |-> Script_from(value.type_[i])]]

CellOutput_from(value) ==
    [capacity |-> unpack_uint(value.capacity),
     lock |-> Script_from(value.lock),
     type_ |-> [i \in 1..Len(value.type_) |-> Script_from(value.type_[i])]]

\* variant: the type script dropped
CellOutput_into_NoType(value) ==
    [capacity |-> pack_uint(value.capacity),
     lock |-> Script_into(value.lock),
     type_ |-> <<>>]

CellOutput_into(value) ==
    [capacity |-> pack_uint(value.capacity),
     lock |-> Script_into(value.lock),
     type_ |-> [i \in 1..Len(value.type_) |-> Script_into(value.type_[i])]]

OutPoint_from(value) ==
    [tx_hash |-> value.tx_hash, index |-> unpack_uint(value.index)]

OutPoint_into(value) ==
    [tx_hash |-> value.tx_hash, index |-> pack_uint(value.index)]

CellInput_from(value) ==
    [since |-> unpack_uint(value.since),
     previous_output |-> OutPoint_from(value.previous_output)]

CellInput_into(value) ==
    [since |-> pack_uint(value.since),
     previous_output |-> OutPoint_into(value.previous_output)]

DepType_from(byte) ==
    CASE byte = 0 -> "Code"
      [] byte = 1 -> "DepGroup"
      [] OTHER -> Unreachable

\* `dep_type as u8`
DepType_as_u8(t) ==
    CASE t = "Code" -> 0
      [] t = "DepGroup" -> 1

CellDep_from(value) ==
    [out_point |-> OutPoint_from(value.out_point),
     dep_type |-> DepType_from(value.dep_type)]

CellDep_into(value) ==
    [out_point |-> OutPoint_into(value.out_point),
     dep_type |-> DepType_as_u8(value.dep_type)]

-----------------------------------------------------------------------------
(* src/transaction.rs *)

\* variant: the digest taken of the whole transaction, witnesses included
calc_tx_hash_WithWitnesses(value) == [blake2b_256 |-> value]

\* packed::Transaction::calc_tx_hash: the digest of the raw transaction's
\* bytes, kept as the bytes it was taken of (no two inputs collide)
calc_tx_hash(value) == [blake2b_256 |-> value.raw]

\* variant: the inputs collected last to first
TransactionView_fields_Reversed(value, hash) ==
    [version |-> unpack_uint(value.raw.version),
     cell_deps |-> [i \in 1..Len(value.raw.cell_deps) |->
                      CellDep_from(value.raw.cell_deps[i])],
     header_deps |-> value.raw.header_deps,
     inputs |-> [i \in 1..Len(value.raw.inputs) |->
                   CellInput_from(value.raw.inputs[Len(value.raw.inputs) + 1 - i])],
     outputs |-> [i \in 1..Len(value.raw.outputs) |->
                    CellOutput_from(value.raw.outputs[i])],
     outputs_data |-> value.raw.outputs_data,
     witnesses |-> value.witnesses,
     hash |-> hash]

TransactionView_fields(value, hash) ==
    [version |-> unpack_uint(value.raw.version),
     cell_deps |-> [i \in 1..Len(value.raw.cell_deps) |->
                      CellDep_from(value.raw.cell_deps[i])],
     header_deps |-> value.raw.header_deps,
     inputs |-> [i \in 1..Len(value.raw.inputs) |->
                   CellInput_from(value.raw.inputs[i])],
     outputs |-> [i \in 1..Len(value.raw.outputs) |->
                    CellOutput_from(value.raw.outputs[i])],
     outputs_data |-> value.raw.outputs_data,
     witnesses |-> value.witnesses,
     hash |-> hash]

\* an enum conversion of the decode reached unreachable!()
ScriptUnwinds(s) == s.hash_type = Unreachable

Unwinds(v) ==
    \/ \E i \in 1..Len(v.cell_deps) : v.cell_deps[i].dep_type = Unreachable
    \/ \E i \in 1..Len(v.outputs) :
          \/ ScriptUnwinds(v.outputs[i].lock)
          \/ \E j \in 1..Len(v.outputs[i].type_) : ScriptUnwinds(v.outputs[i].type_[j])

Returned(v) == [status |-> "ok", val |-> v]
Panicked == [status |-> "panic", val |-> <<>>]

Outcome(v) == IF Unwinds(v) THEN Panicked ELSE Returned(v)

\* impl From<packed::Transaction> for TransactionView
TransactionView_from_packed(value) ==
    Outcome(TransactionView_fields(value, calc_tx_hash(value)))

\* impl From<core::TransactionView> for TransactionView
TransactionView_from_core(value) ==
    Outcome(TransactionView_fields(value.data, value.hash))

\* impl From<TransactionView> for packed::Transaction
Transaction_from_view(value) ==
    [raw |-> [version |-> pack_uint(value.version),
              cell_deps |-> [i \in 1..Len(value.cell_deps) |->
                               CellDep_into(value.cell_deps[i])],
              header_deps |-> value.header_deps,
              inputs |-> [i \in 1..Len(value.inputs) |->
                            CellInput_into(value.inputs[i])],
              outputs |-> [i \in 1..Len(value.outputs) |->
                             CellOutput_into(value.outputs[i])],
              outputs_data |-> value.outputs_data],
     witnesses |-> value.witnesses]

-----------------------------------------------------------------------------
(* Inputs of the structural codec: packed records as the molecule builders  *)
(* assemble them, with every byte a tag field can hold represented          *)

Zero32 == Rep(0, 32)
Hash32A == [i \in 1..32 |-> 7 * i]

PackedUint32s == {<<0, 0, 0, 0>>, <<120, 86, 52, 18>>}
PackedUint64s == {Rep(0, 8), <<239, 205, 171, 137, 103, 69, 35, 1>>}
PackedBytes == {<<>>, <<171, 0>>}

HashTypeBytes == {0, 1, 2, 3}
DepTypeBytes == {0, 1, 2, 255}

DefaultScript == [code_hash |-> Zero32, hash_type |-> 0, args |-> <<>>]

LockScripts == {[DefaultScript EXCEPT !.hash_type = t] : t \in HashTypeBytes}

Scripts ==
    LockScripts \cup
    {[code_hash |-> Hash32A, hash_type |-> t, args |-> <<171, 0>>] : t \in HashTypeBytes}

OutPoints == {[tx_hash |-> Zero32, index |-> <<0, 0, 0, 0>>],
              [tx_hash |-> Hash32A, index |-> <<120, 86, 52, 18>>]}

Elements(field) ==
    CASE field = "cell_deps" ->
            {[out_point |-> o, dep_type |-> t] : o \in OutPoints, t \in DepTypeBytes}
      [] field = "header_deps" -> {Zero32, Hash32A}
      [] field = "inputs" ->
            {[since |-> n, previous_output |-> o] : n \in PackedUint64s, o \in OutPoints}
      [] field = "outputs" ->
            {[capacity |-> c, lock |-> l, type_ |-> <<>>] :
                c \in PackedUint64s, l \in LockScripts}
            \cup {[capacity |-> Rep(0, 8), lock |-> DefaultScript, type_ |-> <<t>>] :
                    t \in Scripts}
      [] field = "outputs_data" -> PackedBytes
      [] field = "witnesses" -> PackedBytes

RawFields == {"cell_deps", "header_deps", "inputs", "outputs", "outputs_data"}

EmptyTx(version) ==
    [raw |-> [version |-> version, cell_deps |-> <<>>, header_deps |-> <<>>,
              inputs |-> <<>>, outputs |-> <<>>, outputs_data |-> <<>>],
     witnesses |-> <<>>]

Items(t) ==
    Len(t.raw.cell_deps) + Len(t.raw.header_deps) + Len(t.raw.inputs)
    + Len(t.raw.outputs) + Len(t.raw.outputs_data) + Len(t.witnesses)

\* hashes a core::TransactionView can be given by fake_hash
FakeHashes == {calc_tx_hash(EmptyTx(v)) : v \in PackedUint32s}

-----------------------------------------------------------------------------
(* The structural codec as a state machine: a packed transaction is built,  *)
(* decoded (directly, or from the core view that caches its hash),          *)
(* encoded again, and the encoded record decoded once more.                *)

ScalarIdle ==
    /\ ty = "none" /\ origin = "none" /\ pc = "idle" /\ text = NoText
    /\ res = None /\ out = NoValue /\ res2 = None

TxInit ==
    /\ tx \in {EmptyTx(v) : v \in PackedUint32s}
    /\ core = <<>>
    /\ view = NoView
    /\ repacked = <<>>
    /\ view2 = NoView
    /\ tpc = "build"
    /\ ScalarIdle

\* one more element in an array of the packed transaction
PushItem ==
    /\ tpc = "build"
    /\ Items(tx) < MaxItems
    /\ \E field \in RawFields \cup {"witnesses"} : \E e \in Elements(field) :
          tx' = IF field = "witnesses"
                THEN [tx EXCEPT !.witnesses = Append(@, e)]
                ELSE [tx EXCEPT !.raw[field] = Append(@, e)]
    /\ UNCHANGED <<core, view, repacked, view2, tpc>>
    /\ UNCHANGED svars

\* TransactionView::from(packed::Transaction)
DecodePacked ==
    /\ tpc = "build"
    /\ view' = TransactionView_from_packed(tx)
    /\ tpc' = IF view'.status = "ok" THEN "decoded" ELSE "panicked"
    /\ UNCHANGED <<tx, core, repacked, view2>>
    /\ UNCHANGED svars

\* packed::Transaction::into_view: the core view caches the computed hash
IntoView ==
    /\ tpc = "build"
    /\ core' = [data |-> tx, hash |-> calc_tx_hash(tx)]
    /\ tpc' = "core"
    /\ UNCHANGED <<tx, view, repacked, view2>>
    /\ UNCHANGED svars

\* core::TransactionView::fake_hash: the cached hash is replaced, unchecked
FakeHash ==
    /\ tpc = "core"
    /\ \E h \in FakeHashes \ {core.hash} : core' = [core EXCEPT !.hash = h]
    /\ UNCHANGED <<tx, view, repacked, view2, tpc>>
    /\ UNCHANGED svars

\* TransactionView::from(core::TransactionView)
DecodeCore ==
    /\ tpc = "core"
    /\ view' = TransactionView_from_core(core)
    /\ tpc' = IF view'.status = "ok" THEN "decoded" ELSE "panicked"
    /\ UNCHANGED <<tx, core, repacked, view2>>
    /\ UNCHANGED svars

\* packed::Transaction::from(TransactionView)
Encode ==
    /\ tpc = "decoded"
    /\ repacked' = Transaction_from_view(view.val)
    /\ tpc' = "encoded"
    /\ UNCHANGED <<tx, core, view, view2>>
    /\ UNCHANGED svars

\* TransactionView::from(packed::Transaction) on the record just encoded
Redecode ==
    /\ tpc = "encoded"
    /\ view2' = TransactionView_from_packed(repacked)
    /\ tpc' = "redecoded"
    /\ UNCHANGED <<tx, core, view, repacked>>
    /\ UNCHANGED svars

TxNext ==
    PushItem \/ DecodePacked \/ IntoView \/ FakeHash \/ DecodeCore \/ Encode \/ Redecode

TxSpec == TxInit /\ [][TxNext]_vars

-----------------------------------------------------------------------------
(* Properties of the structural codec *)

ValidScript(s) == s.hash_type \in {0, 1, 2}

\* every tag byte of the packed transaction is one of its enum's values
ValidTags(t) ==
    /\ \A i \in 1..Len(t.raw.cell_deps) : t.raw.cell_deps[i].dep_type \in {0, 1}
    /\ \A i \in 1..Len(t.raw.outputs) :
          /\ ValidScript(t.raw.outputs[i].lock)
          /\ \A j \in 1..Len(t.raw.outputs[i].type_) :
                ValidScript(t.raw.outputs[i].type_[j])

DecodeEnded == tpc \in {"decoded", "panicked", "encoded", "redecoded"}

\* the decode returned a view
DecodeReturned == tpc \in {"decoded", "encoded", "redecoded"}

\* the view has been encoded
Encoded == tpc \in {"encoded", "redecoded"}

\* C2: a packed transaction with valid tag bytes decodes, and the decoded
\* view encodes to a record equal to it in every field.
C2_StructuralRoundTrip ==
    /\ (DecodeEnded /\ ValidTags(tx)) => view.status = "ok"
    /\ Encoded => repacked = tx

C2_Witness ==
    /\ tpc = "encoded" /\ core = <<>> /\ repacked = tx
    /\ Len(tx.raw.outputs) = 1 /\ tx.raw.outputs[1].type_ # <<>>
    /\ Len(tx.witnesses) = 1 /\ tx.witnesses[1] # <<>>
    /\ tx.raw.version # <<0, 0, 0, 0>>

\* C3: whichever entry point decoded it, the view's hash is the canonical
\* hash of the raw (witness-free) part of the transaction.
C3_HashDerivation ==
    DecodeReturned => view.val.hash = calc_tx_hash(tx)

\* C4: a decode that meets a tag byte outside its enum ends in the typed
\* error InvalidTagError.
C4_InvalidTagRejection ==
    (DecodeEnded /\ ~ValidTags(tx)) => view.status = "InvalidTagError"

\* C8: every decoded view has as many outputs as outputs_data.
C8_ParallelArrays ==
    DecodeReturned =>
        Len(view.val.outputs) = Len(view.val.outputs_data)

\* a and b have the same elements at the same indexes
SameAt(a, b) ==
    /\ Len(a) = Len(b)
    /\ \A i \in 1..Len(b) : a[i] = b[i]

\* C11: every array of a decoded view has the length of the source array
\* and, at each index, the conversion of the source's element at that index;
\* likewise every array of the record encoded from a view.
C11_ArrayOrder ==
    /\ DecodeReturned =>
          /\ Len(view.val.cell_deps) = Len(tx.raw.cell_deps)
          /\ \A i \in 1..Len(tx.raw.cell_deps) :
                view.val.cell_deps[i] = CellDep_from(tx.raw.cell_deps[i])
          /\ Len(view.val.inputs) = Len(tx.raw.inputs)
          /\ \A i \in 1..Len(tx.raw.inputs) :
                view.val.inputs[i] = CellInput_from(tx.raw.inputs[i])
          /\ Len(view.val.outputs) = Len(tx.raw.outputs)
          /\ \A i \in 1..Len(tx.raw.outputs) :
                view.val.outputs[i] = CellOutput_from(tx.raw.outputs[i])
          /\ SameAt(view.val.header_deps, tx.raw.header_deps)
          /\ SameAt(view.val.outputs_data, tx.raw.outputs_data)
          /\ SameAt(view.val.witnesses, tx.witnesses)
    /\ Encoded =>
          /\ Len(repacked.raw.cell_deps) = Len(view.val.cell_deps)
          /\ \A i \in 1..Len(view.val.cell_deps) :
                repacked.raw.cell_deps[i] = CellDep_into(view.val.cell_deps[i])
          /\ Len(repacked.raw.inputs) = Len(view.val.inputs)
          /\ \A i \in 1..Len(view.val.inputs) :
                repacked.raw.inputs[i] = CellInput_into(view.val.inputs[i])
          /\ Len(repacked.raw.outputs) = Len(view.val.outputs)
          /\ \A i \in 1..Len(view.val.outputs) :
                repacked.raw.outputs[i] = CellOutput_into(view.val.outputs[i])
          /\ SameAt(repacked.raw.header_deps, view.val.header_deps)
          /\ SameAt(repacked.raw.outputs_data, view.val.outputs_data)
          /\ SameAt(repacked.witnesses, view.val.witnesses)

C11_Witness ==
    /\ tpc = "encoded"
    /\ Len(tx.raw.inputs) = 2 /\ tx.raw.inputs[1] # tx.raw.inputs[2]
    /\ view.val.inputs[1] = CellInput_from(tx.raw.inputs[1])
    /\ view.val.inputs[2] = CellInput_from(tx.raw.inputs[2])
    /\ repacked.raw.inputs = tx.raw.inputs

\* the variants of ScriptHashType by discriminant
HashTypeNames == <<"Data", "Type", "Data1">>

\* C12: an output whose type-script marker is absent decodes to None; one
\* whose marker is present decodes to Some(script) with the record's
\* code_hash, hash_type and args, whatever their values (an all-default
\* script included), and is encoded as present again.
C12_OptionalTypeScript ==
    /\ DecodeReturned =>
          /\ Len(view.val.outputs) = Len(tx.raw.outputs)
          /\ \A i \in 1..Len(tx.raw.outputs) :
                LET p == tx.raw.outputs[i].type_
                    v == view.val.outputs[i].type_
                IN  /\ p = <<>> => v = <<>>
                    /\ p # <<>> =>
                          /\ Len(v) = 1
                          /\ v[1].code_hash = p[1].code_hash
                          /\ v[1].hash_type = HashTypeNames[p[1].hash_type + 1]
                          /\ v[1].args = p[1].args
    /\ Encoded =>
          \A i \in 1..Len(tx.raw.outputs) :
              repacked.raw.outputs[i].type_ = tx.raw.outputs[i].type_

C12_Witness ==
    /\ tpc = "encoded"
    /\ Len(tx.raw.outputs) = 2
    /\ tx.raw.outputs[1].type_ = <<DefaultScript>>
    /\ tx.raw.outputs[2].type_ = <<>>
    /\ view.val.outputs[1].type_ =
          <<[code_hash |-> Zero32, hash_type |-> "Data", args |-> <<>>]>>
    /\ view.val.outputs[2].type_ = <<>>
    /\ repacked.raw.outputs[1].type_ = <<DefaultScript>>

ContentFields ==
    {"version", "cell_deps", "header_deps", "inputs", "outputs", "outputs_data",
     "witnesses"}

\* C13: the encode of a view does not depend on its hash field; decoding the
\* encoded record gives back the view's seven content fields and the digest
\* of the encoded raw transaction as hash, so it gives back the view itself
\* exactly when the view's hash already was that digest.
C13_TypedRoundTrip ==
    /\ Encoded =>
          \A h \in FakeHashes \cup {calc_tx_hash(tx)} :
              Transaction_from_view([view.val EXCEPT !.hash = h]) = repacked
    /\ tpc = "redecoded" =>
          /\ view2.status = "ok"
          /\ \A f \in ContentFields : view2.val[f] = view.val[f]
          /\ view2.val.hash = [blake2b_256 |-> repacked.raw]
          /\ (view2.val = view.val) <=> (view.val.hash = [blake2b_256 |-> repacked.raw])

C13_Witness ==
    /\ tpc = "redecoded"
    /\ view.val.hash # [blake2b_256 |-> repacked.raw]
    /\ view2.val # view.val
    /\ Len(view.val.witnesses) = 1 /\ Len(view.val.outputs) = 1
    /\ \A f \in ContentFields : view2.val[f] = view.val[f]

====
